---- MODULE Spec2Model ----
(***************************************************************************)
(* Media ingestion pipeline of Life-week-media: the recursive walker, the  *)
(* per-file state machine of FileScanner.processFile, the SQLite store     *)
(* (media_files, thumbnails) and the IPC handlers of electron/main.ts that *)
(* start and cancel scans and delete records.                              *)
(*                                                                         *)
(* Node runs one callback at a time: every action below is the code that   *)
(* runs between two awaits of one scan (or one IPC handler), and pc names  *)
(* the operation a scan is suspended on.                                   *)
(***************************************************************************)
EXTENDS Integers, Sequences, FiniteSets, TLC

\* ------------------------------------------------------------------ bounds

\* scanDirectory calls (runs) a behaviour may start
MaxScans == 2
\* failures injected into a behaviour: a store write that throws, an image
\* library or unlink call that rejects, an ffmpeg that fails or outlives its timer
MaxFaults == 2
\* the same, while the window's handlers run
MaxIpcFaults == 1
\* delete-file and reset-library calls of a behaviour
MaxUserOps == 1
\* edits of a file on disk by another program
MaxEdits == 1

Scans == 1..MaxScans
NoScan == 0

\* ---------------------------------------------------------- the directory

\* The tree handed to the scanner: root r holds the subdirectory d and the
\* file f2, d holds the file f1.  Paths are atoms; path.join(dir, name) is
\* the entry's atom.
Root == "r"
Dirs == {"r", "d"}
Files == {"f1", "f2"}

Children(dir) == IF dir = "r" THEN <<"d", "f2">> ELSE <<"f1">>

Cancelled == "Scan cancelled"
Failure == "error"

\* ------------------------------------------------------------ classifier

toLowerCase(ext) ==
  CASE ext = ".JPG" -> ".jpg"
    [] ext = ".Mp4" -> ".mp4"
    [] OTHER -> ext

getFileType(ext) ==
  IF ext \in {".jpg", ".jpeg", ".png", ".gif", ".webp", ".bmp", ".svg"} THEN "image"
  ELSE IF ext \in {".mp4", ".mov", ".avi", ".mkv", ".webm"} THEN "video"
  ELSE IF ext \in {".mp3", ".wav", ".flac", ".aac", ".m4a"} THEN "audio"
  ELSE IF ext \in {".pdf", ".doc", ".docx", ".txt"} THEN "document"
  ELSE IF ext \in {".als", ".uproject", ".unity", ".logicx", ".flp", ".prproj", ".drp"} THEN "project"
  ELSE "unknown"

\* Minimum pixel size of the junk-image filter
JunkThreshold == 400

\* sharp(filePath).metadata(): the probed size, or no size at all
NoDims == <<0, 0>>

\* A filter that turns an image away when either side is small
isJunkEither(dims) == dims[1] < JunkThreshold \/ dims[2] < JunkThreshold

isJunk(dims) == dims[1] < JunkThreshold /\ dims[2] < JunkThreshold

\* --------------------------------------------------------- fingerprinter

\* FILE_SIZE_THRESHOLD in units of MiB; sizes of the model are in MiB too
FileSizeThreshold == 50

\* A fingerprinter whose fast path starts at the threshold itself
calculateHashFrom(f) ==
  IF f.size >= FileSizeThreshold
  THEN <<"md5", f.size, f.mtime, f.head>>
  ELSE <<"md5", f.head, f.tail>>

\* md5 is collision free on the model's inputs: the digest is its input
calculateHash(f) ==
  IF f.size > FileSizeThreshold
  THEN <<"md5", f.size, f.mtime, f.head>>
  ELSE <<"md5", f.head, f.tail>>

\* ------------------------------------------------------------- the state

VARIABLES
  files,        \* each file of the tree: what the filesystem answers for it
  dirs,         \* each directory of the tree: lstat and readdir outcomes
  media,        \* table media_files
  thumbs,       \* table thumbnails
  nextMediaId,  \* AUTOINCREMENT of media_files
  nextThumbId,  \* AUTOINCREMENT of thumbnails
  scans,        \* each scanDirectory call: where it is suspended, its locals
  aborted,      \* each call's AbortSignal.aborted
  controller,   \* main.ts scanAbortController: the scan it belongs to, or NoScan
  procs,        \* ffmpeg subprocesses that have not exited
  tmp,          \* temporary files in os.tmpdir()
  faults,       \* failures still to be injected
  deletes,      \* delete-file handlers suspended on their unlink
  userOps,      \* delete-file and reset-library calls made
  edits,        \* edits of files made behind the scanner's back
  dups,         \* a getDuplicates call: where it is suspended, what it returned
  digests,      \* what the calls of calculateHash on each file have returned
  sinkOk        \* the caller's onProgress returns; it throws once this is FALSE

vars == <<files, dirs, media, thumbs, nextMediaId, nextThumbId, scans, aborted,
          controller, procs, tmp, faults, deletes, userOps, edits, dups, digests, sinkOk>>

\* No getDuplicates call was made
NoQuery == [pc |-> "idle", hashes |-> {}, rows |-> <<>>]

\* No calculateHash call was made
NoDigests == [f \in Files |-> <<>>]

\* -------------------------------------------------------- file profiles

\* Dates are years; a date before EpochYear is invalid
EpochYear == 1970
NoDate == 0
\* A date field that new Date() cannot parse
Unparsable == -1

ExifDates(m, d, c) ==
  [throws |-> FALSE, ModifyDate |-> m, DateTimeOriginal |-> d, CreateDate |-> c]

\* What exifr.parse may answer for an image
ExifResults ==
  {[ExifDates(NoDate, NoDate, NoDate) EXCEPT !.throws = TRUE],
   ExifDates(NoDate, NoDate, NoDate),
   ExifDates(NoDate, 2020, NoDate),
   ExifDates(NoDate, 1901, NoDate),
   ExifDates(Unparsable, 2020, 1901),
   ExifDates(Unparsable, NoDate, NoDate)}

\* What parseFile may answer for a song: it rejects, common tags without a
\* picture, common tags with one
TagOutcomes == {"fail", "tags", "picture"}

\* The entry is no symbolic link
NoLink == ""

FileOf(ext, dims) ==
  [ext |-> ext, exists |-> TRUE, lstatOk |-> TRUE, statOk |-> TRUE,
   dims |-> dims, probeOk |-> TRUE, hashOk |-> TRUE,
   size |-> 1, mtime |-> 2021, birth |-> 2020, head |-> 1, tail |-> 1,
   exif |-> ExifDates(NoDate, NoDate, NoDate), tags |-> "tags", link |-> NoLink]

FileProfiles ==
  {[FileOf(".jpg", <<800, 600>>) EXCEPT !.exif = x] : x \in ExifResults}
  \cup {[FileOf(".mp3", NoDims) EXCEPT !.tags = x] : x \in TagOutcomes}
  \cup
  {FileOf(".jpg", <<20, 20>>),
   FileOf(".JPG", <<400, 399>>),
   [FileOf(".jpg", <<800, 600>>) EXCEPT !.exif = ExifDates(NoDate, 1901, NoDate),
                                         !.birth = 1969],
   [FileOf(".jpg", NoDims) EXCEPT !.probeOk = FALSE],
   FileOf(".mp4", NoDims),
   FileOf(".pdf", NoDims),
   FileOf(".als", NoDims),
   FileOf(".xyz", NoDims),
   [FileOf("", NoDims) EXCEPT !.link = Root],
   [FileOf(".mp4", NoDims) EXCEPT !.lstatOk = FALSE, !.statOk = FALSE, !.hashOk = FALSE],
   [FileOf(".mp4", NoDims) EXCEPT !.statOk = FALSE, !.hashOk = FALSE],
   [FileOf(".pdf", NoDims) EXCEPT !.hashOk = FALSE]}

\* The profiles of the file that follows the subdirectory in the root: one
\* that is added, one that is skipped, one that fails
SiblingProfiles ==
  {FileOf(".pdf", NoDims),
   FileOf(".jpg", <<20, 20>>),
   [FileOf(".mp4", NoDims) EXCEPT !.lstatOk = FALSE, !.statOk = FALSE, !.hashOk = FALSE]}

DirOf(lstatOk, readOk) == [lstatOk |-> lstatOk, readOk |-> readOk]

DirProfiles == {DirOf(TRUE, TRUE), DirOf(FALSE, FALSE), DirOf(TRUE, FALSE)}

\* ---------------------------------------------------------------- store

\* A placeholder insert that leaves the metadata column NULL
NoMetadata == [kind |-> "null"]

\* metadata: '{}' of the placeholder insert
Placeholder == [kind |-> "placeholder"]

\* fs.Stats as processFile keeps it: size, mtime and birthtime (years)
NoStat == [size |-> 0, mtime |-> 0, birth |-> 0]

\* A lookup that finds nothing
existingNever(rows, filePath) == FALSE

\* select().from(mediaFiles).where(eq(filepath, filePath)).get()
existing(rows, filePath) == \E m \in rows : m.filepath = filePath

\* History of a scan, beside its progress events (sink): the ids it inserted
\* (ins), those inserted with its token already set (late), the ids whose
\* metadata it updated, one entry per update (upd), and the nesting depth and
\* the counters at its first throw of 'Scan cancelled' (thrown)
NoThrow == [depth |-> 0, result |-> [added |-> 0, skipped |-> 0, errors |-> 0]]

IdleScan ==
  [pc |-> "idle", sig |-> NoScan,
   opts |-> [includeSubfolders |-> FALSE, scanProjects |-> FALSE],
   stack |-> <<>>,
   result |-> [added |-> 0, skipped |-> 0, errors |-> 0],
   file |-> "", type |-> "", stat |-> NoStat, mediaId |-> 0,
   ipc |-> FALSE, sink |-> {}, ins |-> {}, late |-> {}, upd |-> <<>>,
   thrown |-> NoThrow]

\* The part of the state one step of scan s reads and writes
World(s, sf) ==
  [sc |-> scans[s], media |-> media, thumbs |-> thumbs,
   nextMediaId |-> nextMediaId, nextThumbId |-> nextThumbId,
   procs |-> procs, tmp |-> tmp, wr |-> 0, sf |-> sf, me |-> s]

\* What a step's injected failures cost: a failed call of the environment
\* (ok false) and a failed store write (sf > 0)
Cost(ok, sf) == (IF ok THEN 0 ELSE 1) + (IF sf > 0 THEN 1 ELSE 0)

\* A store write: the sf-th write of the step fails when sf > 0
Write(w) == [w EXCEPT !.wr = @ + 1]
WriteFails(w) == w.sf > 0 /\ w.wr + 1 = w.sf

Emit(w, status, file) ==
  [w EXCEPT !.sc.sink = @ \cup {[status |-> status, file |-> file]}]

Signalled(w) == w.sc.sig # NoScan /\ aborted[w.sc.sig]

\* throw new Error('Scan cancelled') with `calls` calls of walk active
Mark(w, calls) ==
  [w EXCEPT !.sc.thrown = IF @.depth = 0
                          THEN [depth |-> calls, result |-> w.sc.result] ELSE @]

\* ------------------------------------------------------------- walker

\* A catch of processFile that counts the failure and passes it on
processFileCatchRethrow(result, err) ==
  IF err = Cancelled
  THEN [rethrow |-> TRUE, result |-> result]
  ELSE [rethrow |-> TRUE, result |-> [result EXCEPT !.errors = @ + 1]]

\* catch of processFile (scanner.ts 488-492)
processFileCatch(result, err) ==
  IF err = Cancelled
  THEN [rethrow |-> TRUE, result |-> result]
  ELSE [rethrow |-> FALSE, result |-> [result EXCEPT !.errors = @ + 1]]

\* An entry catch that treats the cancellation like any failure
walkEntryCatchAll(result, err) ==
  [rethrow |-> FALSE, result |-> [result EXCEPT !.errors = @ + 1]]

\* catch around one entry of the for-loop of walk (scanner.ts 94-98)
walkEntryCatch(result, err) ==
  IF err = Cancelled
  THEN [rethrow |-> TRUE, result |-> result]
  ELSE [rethrow |-> FALSE, result |-> [result EXCEPT !.errors = @ + 1]]

\* catch around the directory read and the loop of walk (scanner.ts 100-104)
walkDirCatch(result, err) ==
  IF err = Cancelled
  THEN [rethrow |-> TRUE, result |-> result]
  ELSE [rethrow |-> FALSE, result |-> [result EXCEPT !.errors = @ + 1]]

\* A scanDirectory that lets the cancellation out to its caller
scanDirectoryCatchRethrow(result, err) ==
  [rethrow |-> err = Cancelled, result |-> result]

\* catch of scanDirectory (scanner.ts 53-59): logs, the result is returned as is
scanDirectoryCatch(result, err) == [rethrow |-> FALSE, result |-> result]

Top(w) == w.sc.stack[Len(w.sc.stack)]
Advance(w) == [w EXCEPT !.sc.stack[Len(w.sc.stack)].idx = @ + 1]
Pop(w) == [w EXCEPT !.sc.stack = SubSeq(@, 1, Len(@) - 1)]

\* processFile's locals end with the call
ClearFile(w) ==
  [w EXCEPT !.sc.file = "", !.sc.type = "", !.sc.stat = NoStat, !.sc.mediaId = 0]

\* scanDirectory returns its result
ReturnScan(w) == [ClearFile(w) EXCEPT !.sc.pc = "done", !.sc.stack = <<>>]

\* The promise of scanDirectory is rejected
RejectScan(w) == [ClearFile(w) EXCEPT !.sc.pc = "rejected", !.sc.stack = <<>>]

RECURSIVE LoopNext(_), ThrowWalkInner(_, _), ThrowWalkOuter(_, _)

\* The head of the for-loop of walk (scanner.ts 78-81) for the top frame's
\* next entry; a finished loop returns to the caller's loop
LoopNext(w) ==
  IF w.sc.stack = <<>> THEN ReturnScan(w)
  ELSE IF Top(w).idx > Len(Top(w).list)
  THEN IF Len(w.sc.stack) = 1 THEN ReturnScan(Pop(w)) ELSE LoopNext(Advance(Pop(w)))
  ELSE IF Signalled(w) THEN ThrowWalkOuter(Mark(w, Len(w.sc.stack)), Cancelled)
  ELSE [ClearFile(w) EXCEPT !.sc.pc = "lstat", !.sc.file = Top(w).list[Top(w).idx]]

\* An exception leaves a call of walk: into the caller's entry catch, or into
\* scanDirectory's catch when the call was the root's
ThrowFromWalk(w, err) ==
  IF w.sc.stack = <<>>
  THEN LET h == scanDirectoryCatch(w.sc.result, err)
           c == [w EXCEPT !.sc.result = h.result]
       IN  IF h.rethrow THEN RejectScan(c) ELSE ReturnScan(c)
  ELSE ThrowWalkInner(w, err)

ThrowWalkOuter(w, err) ==
  LET h == walkDirCatch(w.sc.result, err)
      p == Pop([w EXCEPT !.sc.result = h.result])
  IN  IF h.rethrow THEN ThrowFromWalk(p, err)
      ELSE IF p.sc.stack = <<>> THEN ReturnScan(p)
      ELSE LoopNext(Advance(p))

ThrowWalkInner(w, err) ==
  LET h == walkEntryCatch(w.sc.result, err)
      c == [w EXCEPT !.sc.result = h.result]
  IN  IF h.rethrow THEN ThrowWalkOuter(c, err) ELSE LoopNext(Advance(c))

\* An exception inside the try of processFile
ThrowProcessFile(w, err) ==
  LET h == processFileCatch(w.sc.result, err)
      c == [w EXCEPT !.sc.result = h.result]
  IN  IF h.rethrow THEN ThrowWalkInner(c, err) ELSE LoopNext(Advance(c))

\* processFile returns normally
ReturnFile(w) == LoopNext(Advance(w))

\* walk(dir) up to its readdir (scanner.ts 72-77)
walk(w, dir) ==
  IF Signalled(w) THEN ThrowFromWalk(Mark(w, Len(w.sc.stack) + 1), Cancelled)
  ELSE IF ~sinkOk
  THEN ThrowWalkOuter([w EXCEPT !.sc.stack = Append(@, [dir |-> dir, list |-> <<>>, idx |-> 0])],
                      Failure)
  ELSE [Emit(w, "scanning", dir) EXCEPT
          !.sc.pc = "readdir",
          !.sc.stack = Append(@, [dir |-> dir, list |-> <<>>, idx |-> 0])]

\* scanDirectory up to the first await (scanner.ts 49-52)
scanDirectory(w) ==
  walk([w EXCEPT !.sc.result = [added |-> 0, skipped |-> 0, errors |-> 0]], Root)

\* A processFile that returns on a known path without counting it
processFileNoCount(w, filePath) ==
  IF Signalled(w) THEN ThrowWalkInner(Mark(w, Len(w.sc.stack)), Cancelled)
  ELSE LET e == Emit(w, "processing", filePath)
       IN  IF existing(e.media, filePath)
           THEN ReturnFile(e)
           ELSE [e EXCEPT !.sc.pc = "stat", !.sc.file = filePath]

\* A processFile without the check of the signal at its top
processFileUnchecked(w, filePath) ==
  LET e == Emit(w, "processing", filePath)
  IN  IF existing(e.media, filePath)
      THEN ReturnFile([e EXCEPT !.sc.result.skipped = @ + 1])
      ELSE [e EXCEPT !.sc.pc = "stat", !.sc.file = filePath]

\* A processFile that goes to its stat without looking the path up
processFileStatFirst(w, filePath) ==
  IF Signalled(w) THEN ThrowWalkInner(Mark(w, Len(w.sc.stack)), Cancelled)
  ELSE [Emit(w, "processing", filePath) EXCEPT !.sc.pc = "stat", !.sc.file = filePath]

\* processFile up to its stat (scanner.ts 114-126)
processFile(w, filePath) ==
  IF Signalled(w) THEN ThrowWalkInner(Mark(w, Len(w.sc.stack)), Cancelled)
  ELSE IF ~sinkOk THEN ThrowProcessFile(w, Failure)
  ELSE LET e == Emit(w, "processing", filePath)
       IN  IF existing(e.media, filePath)
           THEN ReturnFile([e EXCEPT !.sc.result.skipped = @ + 1])
           ELSE [e EXCEPT !.sc.pc = "stat", !.sc.file = filePath]

\* ------------------------------------------------------- store writes

\* A filepath column without its constraint
uniqueFilepathDropped(rows, filePath) == TRUE

\* filepath TEXT NOT NULL UNIQUE
uniqueFilepath(rows, filePath) == \A m \in rows : m.filepath # filePath

\* A thumbnails table without its foreign key
foreignKeyOff(rows, mediaId) == TRUE

\* FOREIGN KEY(media_id) REFERENCES media_files(id)
foreignKey(rows, mediaId) == \E m \in rows : m.id = mediaId

MediaInsertOk(w, filePath) == ~WriteFails(w) /\ uniqueFilepath(w.media, filePath)

InsertMedia(w, rec) ==
  [Write(w) EXCEPT
     !.media = @ \cup {[rec EXCEPT !.id = w.nextMediaId]},
     !.nextMediaId = @ + 1,
     !.sc.mediaId = w.nextMediaId,
     !.sc.ins = @ \cup {w.nextMediaId},
     !.sc.late = IF Signalled(w) THEN @ \cup {w.nextMediaId} ELSE @]

ThumbInsertOk(w) == ~WriteFails(w) /\ foreignKey(w.media, w.sc.mediaId)

InsertThumb(w, kind) ==
  [Write(w) EXCEPT
     !.thumbs = @ \cup {[id |-> w.nextThumbId, mediaId |-> w.sc.mediaId, kind |-> kind]},
     !.nextThumbId = @ + 1]

UpdateOk(w) == ~WriteFails(w)

\* An update that sets the creation date beside the metadata
UpdateMetadataAndDate(w, meta) ==
  [Write(w) EXCEPT
     !.media = {IF m.id = w.sc.mediaId
                THEN [m EXCEPT !.metadata = meta, !.createdAt = w.sc.stat.mtime]
                ELSE m : m \in @},
     !.sc.upd = Append(@, w.sc.mediaId)]

\* db.update(mediaFiles).set({ metadata }).where(eq(mediaFiles.id, mediaId))
UpdateMetadata(w, meta) ==
  [Write(w) EXCEPT
     !.media = {IF m.id = w.sc.mediaId THEN [m EXCEPT !.metadata = meta] ELSE m : m \in @},
     !.sc.upd = Append(@, w.sc.mediaId)]

\* ------------------------------------------------------------ metadata

\* The filesystem dates injected when no embedded date is usable
\* (scanner.ts 425-436, 442-455, 470-482)
fallbackDates(stat) ==
  [ModifyDate |-> stat.mtime,
   CreateDate |-> IF stat.birth >= EpochYear THEN stat.birth ELSE stat.mtime]

\* A range check that accepts every date that parses
validDateAnyYear(val) == val # NoDate /\ val # Unparsable

\* if (val) { d = new Date(val); !isNaN(d.getTime()) && d.getFullYear() >= 1970 }
validDate(val) == val # NoDate /\ val # Unparsable /\ val >= EpochYear

\* exifr's result with its invalid dates deleted (scanner.ts 398-417)
sanitize(parsed) ==
  [ModifyDate |-> IF validDate(parsed.ModifyDate) THEN parsed.ModifyDate ELSE NoDate,
   DateTimeOriginal |-> IF validDate(parsed.DateTimeOriginal) THEN parsed.DateTimeOriginal ELSE NoDate,
   CreateDate |-> IF validDate(parsed.CreateDate) THEN parsed.CreateDate ELSE NoDate]

hasValidDate(parsed) ==
  validDate(parsed.ModifyDate) \/ validDate(parsed.DateTimeOriginal) \/ validDate(parsed.CreateDate)

\* Image metadata (scanner.ts 388-456); parsed.throws: exifr.parse rejected
imageMetadata(parsed, stat) ==
  IF parsed.throws
  THEN [kind |-> "image", ModifyDate |-> fallbackDates(stat).ModifyDate,
        DateTimeOriginal |-> NoDate, CreateDate |-> fallbackDates(stat).CreateDate,
        fallback |-> TRUE, error |-> TRUE]
  ELSE IF hasValidDate(parsed)
  THEN [kind |-> "image", ModifyDate |-> sanitize(parsed).ModifyDate,
        DateTimeOriginal |-> sanitize(parsed).DateTimeOriginal,
        CreateDate |-> sanitize(parsed).CreateDate,
        fallback |-> FALSE, error |-> FALSE]
  ELSE [kind |-> "image", ModifyDate |-> fallbackDates(stat).ModifyDate,
        DateTimeOriginal |-> NoDate, CreateDate |-> fallbackDates(stat).CreateDate,
        fallback |-> TRUE, error |-> FALSE]

\* Video metadata: the filesystem dates only (scanner.ts 470-482)
videoMetadata(stat) ==
  [kind |-> "video", ModifyDate |-> fallbackDates(stat).ModifyDate,
   CreateDate |-> fallbackDates(stat).CreateDate, fallback |-> TRUE]

\* Audio metadata: the common tags, or {} when parseFile failed (scanner.ts 257-282)
audioMetadata(tagsRead) == [kind |-> "audio", tags |-> tagsRead]

\* --------------------------------------------------- processFile stages

ThumbTemp(w) == <<"thumb", w.sc.mediaId>>
WaveTemp(w) == <<"wave", w.sc.mediaId>>

Spawn(w, kind) ==
  [w EXCEPT !.procs = @ \cup {[scan |-> w.me, kind |-> kind, mediaId |-> w.sc.mediaId]}]
Exited(w, kind) ==
  [w EXCEPT !.procs = @ \ {[scan |-> w.me, kind |-> kind, mediaId |-> w.sc.mediaId]}]

\* Image metadata computed and stored (scanner.ts 397-467, 487)
persistImageMetadata(w, parsed) ==
  LET meta == imageMetadata(parsed, w.sc.stat)
      u == IF UpdateOk(w) THEN UpdateMetadata(w, meta) ELSE Write(w)
  IN  ReturnFile([u EXCEPT !.sc.result.added = @ + 1])

\* Metadata stage up to its await (scanner.ts 380-487); onProgress throwing
\* at 385 is caught at 440 like a rejection of exifr.parse
metadataStage(w) ==
  IF Signalled(w) THEN ThrowProcessFile(Mark(w, Len(w.sc.stack)), Cancelled)
  ELSE IF w.sc.type = "image"
  THEN IF sinkOk THEN [Emit(w, "processing", w.sc.file) EXCEPT !.sc.pc = "exif"]
       ELSE persistImageMetadata(w, [ExifDates(NoDate, NoDate, NoDate) EXCEPT !.throws = TRUE])
  ELSE IF w.sc.type = "video"
  THEN IF UpdateOk(w)
       THEN ReturnFile([UpdateMetadata(w, videoMetadata(w.sc.stat)) EXCEPT
                          !.sc.result.added = @ + 1])
       ELSE ThrowProcessFile(Write(w), Failure)
  ELSE ReturnFile([w EXCEPT !.sc.result.added = @ + 1])

\* A thumbnail stage without the check of the signal after the insert
thumbnailStageUnchecked(w) ==
  IF w.sc.type = "image"
  THEN [Emit(w, "generating_thumbnail", w.sc.file) EXCEPT !.sc.pc = "img_resize"]
  ELSE IF w.sc.type = "video"
  THEN [Spawn(Emit(w, "generating_thumbnail", w.sc.file), "frame") EXCEPT
          !.sc.pc = "vid_ffmpeg"]
  ELSE IF w.sc.type = "audio"
  THEN [Emit(w, "generating_thumbnail", w.sc.file) EXCEPT !.sc.pc = "aud_tags"]
  ELSE metadataStage(w)

\* Thumbnail stage up to its first await (scanner.ts 164-261)
thumbnailStage(w) ==
  IF Signalled(w) THEN ThrowProcessFile(Mark(w, Len(w.sc.stack)), Cancelled)
  ELSE IF w.sc.type \in {"image", "video", "audio"} /\ ~sinkOk
  THEN ThrowProcessFile(w, Failure)
  ELSE IF w.sc.type = "image"
  THEN [Emit(w, "generating_thumbnail", w.sc.file) EXCEPT !.sc.pc = "img_resize"]
  ELSE IF w.sc.type = "video"
  THEN [Spawn(Emit(w, "generating_thumbnail", w.sc.file), "frame") EXCEPT
          !.sc.pc = "vid_ffmpeg"]
  ELSE IF w.sc.type = "audio"
  THEN [Emit(w, "generating_thumbnail", w.sc.file) EXCEPT !.sc.pc = "aud_tags"]
  ELSE metadataStage(w)

\* A type filter that lets every project file through
afterStatAllProjects(w) ==
  LET f == files[w.sc.file]
      type == getFileType(toLowerCase(f.ext))
  IN  IF ~(f.exists /\ f.statOk) THEN ThrowProcessFile(w, Failure)
      ELSE IF type = "unknown" THEN ReturnFile(w)
      ELSE [w EXCEPT !.sc.type = type,
                     !.sc.stat = [size |-> f.size, mtime |-> f.mtime, birth |-> f.birth],
                     !.sc.pc = IF type = "image" THEN "probe" ELSE "hash"]

\* A type filter that counts the files it turns away as skipped
afterStatCounting(w) ==
  LET f == files[w.sc.file]
      type == getFileType(toLowerCase(f.ext))
  IN  IF ~(f.exists /\ f.statOk) THEN ThrowProcessFile(w, Failure)
      ELSE IF type = "unknown" \/ (type = "project" /\ ~w.sc.opts.scanProjects)
      THEN ReturnFile([w EXCEPT !.sc.result.skipped = @ + 1])
      ELSE [w EXCEPT !.sc.type = type,
                     !.sc.stat = [size |-> f.size, mtime |-> f.mtime, birth |-> f.birth],
                     !.sc.pc = IF type = "image" THEN "probe" ELSE "hash"]

\* After stat: classification and the type filter (scanner.ts 126-137)
afterStat(w) ==
  LET f == files[w.sc.file]
      type == getFileType(toLowerCase(f.ext))
  IN  IF ~(f.exists /\ f.statOk) THEN ThrowProcessFile(w, Failure)
      ELSE IF type = "unknown" THEN ReturnFile(w)
      ELSE IF type = "project" /\ ~w.sc.opts.scanProjects THEN ReturnFile(w)
      ELSE [w EXCEPT !.sc.type = type,
                     !.sc.stat = [size |-> f.size, mtime |-> f.mtime, birth |-> f.birth],
                     !.sc.pc = IF type = "image" THEN "probe" ELSE "hash"]

\* A junk filter that stops the file without counting it
afterProbeNoCount(w) ==
  LET f == files[w.sc.file]
  IN  IF f.exists /\ f.probeOk /\ isJunk(f.dims)
      THEN ReturnFile(w)
      ELSE [w EXCEPT !.sc.pc = "hash"]

\* After the dimension probe: the junk filter (scanner.ts 137-148)
afterProbe(w) ==
  LET f == files[w.sc.file]
  IN  IF f.exists /\ f.probeOk /\ isJunk(f.dims)
      THEN ReturnFile([w EXCEPT !.sc.result.skipped = @ + 1])
      ELSE [w EXCEPT !.sc.pc = "hash"]

\* After calculateHash: the placeholder insert (scanner.ts 148-164)
afterHash(w) ==
  LET f == files[w.sc.file]
      rec == [id |-> 0, filepath |-> w.sc.file, filename |-> w.sc.file,
              type |-> w.sc.type, size |-> w.sc.stat.size,
              createdAt |-> w.sc.stat.birth, hash |-> calculateHash(f),
              metadata |-> Placeholder]
  IN  IF ~(f.exists /\ f.hashOk) THEN ThrowProcessFile(w, Failure)
      ELSE IF ~MediaInsertOk(w, w.sc.file) THEN ThrowProcessFile(Write(w), Failure)
      ELSE thumbnailStage(InsertMedia(w, rec))

\* Image thumbnail after the resize (scanner.ts 171-183)
afterImgResize(w, ok) ==
  IF ok /\ ThumbInsertOk(w) THEN metadataStage(InsertThumb(w, "image"))
  ELSE IF ok THEN metadataStage(Write(w))
  ELSE metadataStage(w)

\* Image metadata after exifr.parse (scanner.ts 388-467, 487)
afterExif(w) == persistImageMetadata(w, files[w.sc.file].exif)

\* Video thumbnail after the race of ffmpeg and the 15 s timer (scanner.ts 195-250)
afterVidFfmpeg(w, outcome) ==
  IF outcome = "exit0"
  THEN LET x == [Exited(w, "frame") EXCEPT !.tmp = @ \cup {ThumbTemp(w)}]
       IN  [x EXCEPT !.sc.pc = IF Signalled(w) THEN "vid_unlink_cancel" ELSE "vid_resize"]
  ELSE IF outcome = "exitErr" THEN metadataStage(Exited(w, "frame"))
  ELSE metadataStage(w)

\* unlink of the frame on cancellation (scanner.ts 222-225, 248)
afterVidUnlinkCancel(w, ok) ==
  ThrowProcessFile(Mark([w EXCEPT !.tmp = IF ok THEN @ \ {ThumbTemp(w)} ELSE @],
                        Len(w.sc.stack)),
                   Cancelled)

\* The frame resized and stored (scanner.ts 228-241)
afterVidResize(w, ok) ==
  IF ok /\ ThumbInsertOk(w)
  THEN [InsertThumb(w, "frame") EXCEPT !.sc.pc = "vid_unlink"]
  ELSE IF ok THEN metadataStage(Write(w))
  ELSE metadataStage(w)

\* unlink of the frame after the insert (scanner.ts 240-250)
afterVidUnlink(w, ok) ==
  metadataStage([w EXCEPT !.tmp = IF ok THEN @ \ {ThumbTemp(w)} ELSE @])

\* An audio path that renders the waveform whether or not it has a cover
audioUpdateAlwaysWave(w, tagsRead, cover) ==
  IF ~UpdateOk(w) THEN metadataStage(Write(w))
  ELSE [Spawn(UpdateMetadata(w, audioMetadata(tagsRead)), "wave") EXCEPT
          !.sc.pc = "aud_ffmpeg"]

\* Audio: the metadata update and the cover thumbnail, or the waveform spawn
\* (scanner.ts 284-322); the catch of 375 swallows every exception
audioUpdate(w, tagsRead, cover) ==
  IF ~UpdateOk(w) THEN metadataStage(Write(w))
  ELSE LET u == UpdateMetadata(w, audioMetadata(tagsRead))
       IN  IF cover
           THEN IF ThumbInsertOk(u) THEN metadataStage(InsertThumb(u, "cover"))
                ELSE metadataStage(Write(u))
           ELSE [Spawn(u, "wave") EXCEPT !.sc.pc = "aud_ffmpeg"]

\* After parseFile (scanner.ts 261-282)
afterAudTags(w) ==
  LET tags == IF files[w.sc.file].exists THEN files[w.sc.file].tags ELSE "fail"
  IN  IF tags = "fail" THEN audioUpdate(w, FALSE, FALSE)
      ELSE IF tags = "picture" THEN [w EXCEPT !.sc.pc = "aud_cover"]
      ELSE audioUpdate(w, TRUE, FALSE)

\* After the resize of the embedded picture (scanner.ts 275-282)
afterAudCover(w, ok) == audioUpdate(w, TRUE, ok)

\* After the race of the waveform ffmpeg and the 30 s timer (scanner.ts 304-345)
afterAudFfmpeg(w, outcome) ==
  IF outcome = "exit0"
  THEN LET x == [Exited(w, "wave") EXCEPT !.tmp = @ \cup {WaveTemp(w)}]
       IN  [x EXCEPT !.sc.pc = IF Signalled(w) THEN "aud_unlink_cancel" ELSE "aud_resize"]
  ELSE IF outcome = "exitErr" THEN [Exited(w, "wave") EXCEPT !.sc.pc = "aud_generic"]
  ELSE [w EXCEPT !.sc.pc = "aud_generic"]

\* unlink of the waveform on cancellation: the throw of 326 is rethrown by 343,
\* swallowed by 375 and thrown again by the check of 380
afterAudUnlinkCancel(w, ok) ==
  metadataStage([w EXCEPT !.tmp = IF ok THEN @ \ {WaveTemp(w)} ELSE @])

\* The waveform resized and stored (scanner.ts 329-345)
afterAudResize(w, ok) ==
  IF ok /\ ThumbInsertOk(w)
  THEN [InsertThumb(w, "wave") EXCEPT !.sc.pc = "aud_unlink"]
  ELSE IF ok THEN [Write(w) EXCEPT !.sc.pc = "aud_generic"]
  ELSE [w EXCEPT !.sc.pc = "aud_generic"]

\* A waveform path that goes on to the generic icon after its insert
afterAudUnlinkFallsBack(w, ok) ==
  [w EXCEPT !.tmp = IF ok THEN @ \ {WaveTemp(w)} ELSE @, !.sc.pc = "aud_generic"]

\* unlink of the waveform after the insert (scanner.ts 340, 380)
afterAudUnlink(w, ok) ==
  metadataStage([w EXCEPT !.tmp = IF ok THEN @ \ {WaveTemp(w)} ELSE @])

\* The generic icon (scanner.ts 348-380)
afterAudGeneric(w, ok) ==
  IF ok /\ ThumbInsertOk(w) THEN metadataStage(InsertThumb(w, "generic"))
  ELSE IF ok THEN metadataStage(Write(w))
  ELSE metadataStage(w)

\* The directory readdir(dir) lists: a symbolic link is followed
Target(dir) == IF dir \in Dirs THEN dir ELSE files[dir].link

\* After readdir (scanner.ts 77-78, 100-104)
afterReaddir(w) ==
  LET dir == Target(Top(w).dir)
      list == SelectSeq(Children(dir),
                        LAMBDA e : IF e \in Files THEN files[e].exists ELSE TRUE)
  IN  IF ~dirs[dir].readOk THEN ThrowWalkOuter(w, Failure)
      ELSE LoopNext([w EXCEPT !.sc.stack[Len(w.sc.stack)].list = list,
                              !.sc.stack[Len(w.sc.stack)].idx = 1])

\* A status that follows symbolic links, as stat does
isDirectoryFollowed(e) == e \in Dirs \/ files[e].link # NoLink

\* lstat(filePath).isDirectory(): a symbolic link is reported as a link
isDirectory(e) == e \in Dirs

\* After lstat of an entry (scanner.ts 84-98)
afterLstat(w) ==
  LET e == w.sc.file
      lstatOk == IF e \in Dirs THEN dirs[e].lstatOk
                 ELSE files[e].exists /\ files[e].lstatOk
  IN  IF ~lstatOk THEN ThrowWalkInner(w, Failure)
      ELSE IF isDirectory(e)
      THEN IF w.sc.opts.includeSubfolders THEN walk(ClearFile(w), e)
           ELSE LoopNext(Advance(w))
      ELSE processFile(w, e)

\* -------------------------------------------------------------- actions

\* One step of scan s ends: its world becomes the state.  ok is false when
\* the awaited call failed by injection; a step that was to suffer a store
\* fault (sf > 0) must have made that write.  The promise
\* of scanDirectory settling runs the finally of start-scan (main.ts 245-247)
Commit(s, w, ok) ==
  /\ Cost(ok, w.sf) <= faults
  /\ w.sf > 0 => w.wr >= w.sf
  /\ scans' = [scans EXCEPT ![s] = w.sc]
  /\ media' = w.media
  /\ thumbs' = w.thumbs
  /\ nextMediaId' = w.nextMediaId
  /\ nextThumbId' = w.nextThumbId
  /\ procs' = w.procs
  /\ tmp' = w.tmp
  /\ faults' = faults - Cost(ok, w.sf)
  /\ controller' = IF w.sc.pc = "done" /\ w.sc.ipc THEN NoScan ELSE controller
  /\ UNCHANGED <<files, dirs, aborted, deletes, userOps, edits, dups, digests, sinkOk>>

Options == [includeSubfolders : BOOLEAN, scanProjects : BOOLEAN]

\* A caller runs scanDirectory(Root, opts, onProgress, signal) with a signal of
\* its own, after the runs before it have returned
ScanDirectory(s, opts) ==
  /\ scans[s].pc = "idle"
  /\ \A t \in Scans : t < s => (scans[t].pc = "done" /\ scans[t].opts = opts)
  /\ Commit(s, scanDirectory([World(s, 0) EXCEPT !.sc.opts = opts, !.sc.sig = s]), TRUE)

\* The caller sets the token of a running scan
Abort(s) ==
  /\ scans[s].pc \notin {"idle", "done"}
  /\ ~aborted[s]
  /\ aborted' = [aborted EXCEPT ![s] = TRUE]
  /\ UNCHANGED <<files, dirs, media, thumbs, nextMediaId, nextThumbId, scans,
                 controller, procs, tmp, faults, deletes, userOps, edits, dups, digests, sinkOk>>

AfterReaddir(s) == scans[s].pc = "readdir" /\ Commit(s, afterReaddir(World(s, 0)), TRUE)

AfterLstat(s) == scans[s].pc = "lstat" /\ Commit(s, afterLstat(World(s, 0)), TRUE)

AfterStat(s) == scans[s].pc = "stat" /\ Commit(s, afterStat(World(s, 0)), TRUE)

AfterProbe(s) == scans[s].pc = "probe" /\ Commit(s, afterProbe(World(s, 0)), TRUE)

AfterHash(s) ==
  /\ scans[s].pc = "hash"
  /\ \E sf \in 0..1 : Commit(s, afterHash(World(s, sf)), TRUE)

AfterImgResize(s) ==
  /\ scans[s].pc = "img_resize"
  /\ \E ok \in BOOLEAN, sf \in 0..1 : Commit(s, afterImgResize(World(s, sf), ok), ok)

AfterExif(s) ==
  /\ scans[s].pc = "exif"
  /\ \E sf \in 0..1 : Commit(s, afterExif(World(s, sf)), TRUE)

FfmpegOutcomes == {"exit0", "exitErr", "timeout"}

AfterVidFfmpeg(s) ==
  /\ scans[s].pc = "vid_ffmpeg"
  /\ \E outcome \in FfmpegOutcomes, sf \in 0..1 :
        Commit(s, afterVidFfmpeg(World(s, sf), outcome), outcome = "exit0")

AfterVidUnlinkCancel(s) ==
  /\ scans[s].pc = "vid_unlink_cancel"
  /\ \E ok \in BOOLEAN : Commit(s, afterVidUnlinkCancel(World(s, 0), ok), ok)

AfterVidResize(s) ==
  /\ scans[s].pc = "vid_resize"
  /\ \E ok \in BOOLEAN, sf \in 0..1 : Commit(s, afterVidResize(World(s, sf), ok), ok)

AfterVidUnlink(s) ==
  /\ scans[s].pc = "vid_unlink"
  /\ \E ok \in BOOLEAN, sf \in 0..1 : Commit(s, afterVidUnlink(World(s, sf), ok), ok)

AfterAudTags(s) ==
  /\ scans[s].pc = "aud_tags"
  /\ \E sf \in 0..1 : Commit(s, afterAudTags(World(s, sf)), TRUE)

AfterAudCover(s) ==
  /\ scans[s].pc = "aud_cover"
  /\ \E ok \in BOOLEAN, sf \in 0..2 : Commit(s, afterAudCover(World(s, sf), ok), ok)

AfterAudFfmpeg(s) ==
  /\ scans[s].pc = "aud_ffmpeg"
  /\ \E outcome \in FfmpegOutcomes :
        Commit(s, afterAudFfmpeg(World(s, 0), outcome), outcome = "exit0")

AfterAudUnlinkCancel(s) ==
  /\ scans[s].pc = "aud_unlink_cancel"
  /\ \E ok \in BOOLEAN : Commit(s, afterAudUnlinkCancel(World(s, 0), ok), ok)

AfterAudResize(s) ==
  /\ scans[s].pc = "aud_resize"
  /\ \E ok \in BOOLEAN, sf \in 0..1 : Commit(s, afterAudResize(World(s, sf), ok), ok)

AfterAudUnlink(s) ==
  /\ scans[s].pc = "aud_unlink"
  /\ \E ok \in BOOLEAN : Commit(s, afterAudUnlink(World(s, 0), ok), ok)

AfterAudGeneric(s) ==
  /\ scans[s].pc = "aud_generic"
  /\ \E ok \in BOOLEAN, sf \in 0..1 : Commit(s, afterAudGeneric(World(s, sf), ok), ok)

\* An ffmpeg whose race was lost to the timer exits on its own, with or
\* without having written its output file
ProcExit(p) ==
  /\ p \in procs
  /\ \A s \in Scans :
       ~(p.scan = s /\ scans[s].mediaId = p.mediaId
           /\ scans[s].pc \in {"vid_ffmpeg", "aud_ffmpeg"})
  /\ procs' = procs \ {p}
  /\ \E wrote \in BOOLEAN :
       tmp' = IF wrote
              THEN tmp \cup {<<IF p.kind = "frame" THEN "thumb" ELSE "wave", p.mediaId>>}
              ELSE tmp
  /\ UNCHANGED <<files, dirs, media, thumbs, nextMediaId, nextThumbId, scans, aborted,
                 controller, faults, deletes, userOps, edits, dups, digests, sinkOk>>

\* Another program rewrites a file while no scan runs: new content, size and mtime
EditFile(f) ==
  /\ edits < MaxEdits
  /\ files[f].exists
  /\ \A s \in Scans : scans[s].pc \in {"idle", "done"}
  /\ edits' = edits + 1
  /\ files' = [files EXCEPT ![f].head = @ + 1, ![f].size = @ + 1, ![f].mtime = @ + 1]
  /\ UNCHANGED <<dirs, media, thumbs, nextMediaId, nextThumbId, scans, aborted,
                 controller, procs, tmp, faults, deletes, userOps, dups, digests, sinkOk>>

ScanStep(s) ==
  \/ AfterReaddir(s)
  \/ AfterLstat(s)
  \/ AfterStat(s)
  \/ AfterProbe(s)
  \/ AfterHash(s)
  \/ AfterImgResize(s)
  \/ AfterExif(s)
  \/ AfterVidFfmpeg(s)
  \/ AfterVidUnlinkCancel(s)
  \/ AfterVidResize(s)
  \/ AfterVidUnlink(s)
  \/ AfterAudTags(s)
  \/ AfterAudCover(s)
  \/ AfterAudFfmpeg(s)
  \/ AfterAudUnlinkCancel(s)
  \/ AfterAudResize(s)
  \/ AfterAudUnlink(s)
  \/ AfterAudGeneric(s)

\* ------------------------------------------------------- specification

\* The directory: any profile for each file; an unreadable root makes the
\* rest of the tree irrelevant
DiskInit ==
  \/ /\ dirs = [x \in Dirs |-> IF x = Root THEN DirOf(TRUE, FALSE) ELSE DirOf(TRUE, TRUE)]
     /\ files = [f \in Files |-> FileOf(".pdf", NoDims)]
  \/ /\ dirs \in [Dirs -> DirProfiles]
     /\ dirs[Root] = DirOf(TRUE, TRUE)
     /\ files \in [Files -> FileProfiles]
     /\ files["f2"] \in SiblingProfiles

StoreInit ==
  /\ media = {}
  /\ thumbs = {}
  /\ nextMediaId = 1
  /\ nextThumbId = 1
  /\ scans = [s \in Scans |-> IdleScan]
  /\ aborted = [s \in Scans |-> FALSE]
  /\ controller = NoScan
  /\ procs = {}
  /\ tmp = {}
  /\ faults = MaxFaults
  /\ deletes = {}
  /\ userOps = 0
  /\ edits = 0
  /\ dups = NoQuery
  /\ digests = NoDigests
  /\ sinkOk = TRUE

Init == DiskInit /\ StoreInit

Next ==
  \/ \E s \in Scans, opts \in Options : ScanDirectory(s, opts)
  \/ \E s \in Scans : Abort(s)
  \/ \E s \in Scans : ScanStep(s)
  \/ \E p \in procs : ProcExit(p)
  \/ \E f \in Files : EditFile(f)

Spec == Init /\ [][Next]_vars

\* ------------------------------------------------------- termination

\* The window the caller's onProgress sends to is destroyed: from now on
\* every call of onProgress throws
BreakSink ==
  /\ sinkOk
  /\ sinkOk' = FALSE
  /\ UNCHANGED <<files, dirs, media, thumbs, nextMediaId, nextThumbId, scans, aborted,
                 controller, procs, tmp, faults, deletes, userOps, edits, dups, digests>>

\* The entry of the subdirectory: a picture, a video, a song with and without
\* a cover, a symbolic link back to the root, a file lstat fails on and one
\* the fingerprint fails on
LiveProfiles ==
  {FileOf(".jpg", <<800, 600>>),
   FileOf(".mp4", NoDims),
   FileOf(".mp3", NoDims),
   [FileOf(".mp3", NoDims) EXCEPT !.tags = "picture"],
   [FileOf("", NoDims) EXCEPT !.link = Root],
   [FileOf(".mp4", NoDims) EXCEPT !.lstatOk = FALSE, !.statOk = FALSE, !.hashOk = FALSE],
   [FileOf(".pdf", NoDims) EXCEPT !.hashOk = FALSE]}

InitLive ==
  /\ StoreInit
  /\ dirs \in [Dirs -> DirProfiles]
  /\ dirs[Root].lstatOk
  /\ files \in [Files -> LiveProfiles \cup {FileOf(".pdf", NoDims)}]
  /\ files["f1"] \in LiveProfiles
  /\ files["f2"] = FileOf(".pdf", NoDims)

\* One scanDirectory call whose callback may begin to throw
NextLive ==
  \/ \E opts \in Options : ScanDirectory(1, opts)
  \/ Abort(1)
  \/ ScanStep(1)
  \/ \E p \in procs : ProcExit(p)
  \/ BreakSink

\* Each awaited call of the scan settles: the filesystem, the image and tag
\* libraries answer or fail, and the wait for ffmpeg ends with its exit or
\* with the timer
SpecLive == InitLive /\ [][NextLive]_vars /\ WF_vars(ScanStep(1))

\* ------------------------------------------------- handlers of main.ts

\* start-scan up to its await import (main.ts 232-239): the scan before it is
\* aborted and the controller replaced
StartScan(s, opts) ==
  /\ scans[s].pc = "idle"
  /\ \A t \in Scans : t < s => scans[t].pc # "idle"
  /\ aborted' = IF controller # NoScan THEN [aborted EXCEPT ![controller] = TRUE]
                ELSE aborted
  /\ controller' = s
  /\ scans' = [scans EXCEPT ![s].pc = "import", ![s].opts = opts, ![s].ipc = TRUE]
  /\ UNCHANGED <<files, dirs, media, thumbs, nextMediaId, nextThumbId, procs, tmp,
                 faults, deletes, userOps, edits, dups, digests, sinkOk>>

\* start-scan after the import (main.ts 240-247): scanDirectory is given the
\* signal of whatever controller the variable holds now; reading .signal of
\* null throws, and the finally clears the variable
ImportDone(s) ==
  /\ scans[s].pc = "import"
  /\ IF controller = NoScan
     THEN /\ scans' = [scans EXCEPT ![s].pc = "rejected"]
          /\ UNCHANGED <<files, dirs, media, thumbs, nextMediaId, nextThumbId, aborted,
                         controller, procs, tmp, faults, deletes, userOps, edits, dups, digests, sinkOk>>
     ELSE Commit(s, scanDirectory([World(s, 0) EXCEPT !.sc.sig = controller]), TRUE)

\* cancel-scan (main.ts 250-257)
CancelScan ==
  /\ controller # NoScan
  /\ aborted' = [aborted EXCEPT ![controller] = TRUE]
  /\ controller' = NoScan
  /\ UNCHANGED <<files, dirs, media, thumbs, nextMediaId, nextThumbId, scans, procs,
                 tmp, faults, deletes, userOps, edits, dups, digests, sinkOk>>

\* delete-file up to its unlink (main.ts 433-440), for a record the window shows
DeleteFile(m) ==
  /\ userOps < MaxUserOps
  /\ m \in media
  /\ userOps' = userOps + 1
  /\ deletes' = deletes \cup {[id |-> m.id, filepath |-> m.filepath]}
  /\ UNCHANGED <<files, dirs, media, thumbs, nextMediaId, nextThumbId, scans, aborted,
                 controller, procs, tmp, faults, edits, dups, digests, sinkOk>>

\* ON DELETE CASCADE of thumbnails.media_id
cascade(rows, ts) == {t \in ts : \E m \in rows : m.id = t.mediaId}

\* delete-file after its unlink (main.ts 441-458): an unlink error other than
\* ENOENT (unlinked false) ends the handler; otherwise the thumbnails and the
\* record are deleted, and the sf-th of the two deletes may fail
DeleteFileDone(req, unlinked, sf) ==
  /\ req \in deletes
  /\ deletes' = deletes \ {req}
  /\ unlinked \/ files[req.filepath].exists
  /\ Cost(unlinked, sf) <= faults
  /\ sf > 0 => unlinked
  /\ faults' = faults - Cost(unlinked, sf)
  /\ files' = IF unlinked THEN [files EXCEPT ![req.filepath].exists = FALSE] ELSE files
  /\ LET ts == IF unlinked /\ sf # 1 THEN {t \in thumbs : t.mediaId # req.id} ELSE thumbs
         ms == IF unlinked /\ sf = 0 THEN {m \in media : m.id # req.id} ELSE media
     IN  /\ media' = ms
         /\ thumbs' = cascade(ms, ts)
  /\ UNCHANGED <<dirs, nextMediaId, nextThumbId, scans, aborted, controller, procs, tmp,
                 userOps, edits, dups, digests, sinkOk>>

\* reset-library (main.ts 298-308)
ResetLibrary(sf) ==
  /\ userOps < MaxUserOps
  /\ userOps' = userOps + 1
  /\ Cost(TRUE, sf) <= faults
  /\ faults' = faults - Cost(TRUE, sf)
  /\ media' = IF sf = 0 THEN {} ELSE media
  /\ thumbs' = IF sf = 0 THEN cascade({}, thumbs) ELSE thumbs
  /\ UNCHANGED <<files, dirs, nextMediaId, nextThumbId, scans, aborted, controller,
                 procs, tmp, deletes, edits, dups, digests, sinkOk>>

\* The library the window scans: a picture, a video or a song in the
\* subdirectory, a document beside it
IpcDiskInit ==
  /\ dirs = [x \in Dirs |-> DirOf(TRUE, TRUE)]
  /\ files \in [Files -> {FileOf(".jpg", <<800, 600>>), FileOf(".mp4", NoDims),
                          FileOf(".mp3", NoDims), FileOf(".pdf", NoDims),
                          [FileOf(".mp3", NoDims) EXCEPT !.tags = "picture"]}]
  /\ files["f1"].ext # ".pdf"
  /\ files["f2"].ext = ".pdf"

\* The window's library holds no project files
IpcOptions == {o \in Options : ~o.scanProjects}

InitIpc ==
  /\ IpcDiskInit
  /\ media = {}
  /\ thumbs = {}
  /\ nextMediaId = 1
  /\ nextThumbId = 1
  /\ scans = [s \in Scans |-> IdleScan]
  /\ aborted = [s \in Scans |-> FALSE]
  /\ controller = NoScan
  /\ procs = {}
  /\ tmp = {}
  /\ faults = MaxIpcFaults
  /\ deletes = {}
  /\ userOps = 0
  /\ edits = 0
  /\ dups = NoQuery
  /\ digests = NoDigests
  /\ sinkOk = TRUE

NextIpc ==
  \/ \E s \in Scans, opts \in IpcOptions : StartScan(s, opts)
  \/ \E s \in Scans : ImportDone(s)
  \/ CancelScan
  \/ \E m \in media : DeleteFile(m)
  \/ \E req \in deletes, unlinked \in BOOLEAN, sf \in 0..2 : DeleteFileDone(req, unlinked, sf)
  \/ \E sf \in 0..1 : ResetLibrary(sf)
  \/ \E s \in Scans : ScanStep(s)
  \/ \E p \in procs : ProcExit(p)

SpecIpc == InitIpc /\ [][NextIpc]_vars

\* ------------------------------------------------------- duplicate query

\* A grouping that keeps every fingerprint of the table
duplicatedHashesAll(rows) == {m.hash : m \in rows}

\* select hash ... group by hash having count(*) > 1 (scanner.ts 542-551)
duplicatedHashes(rows) ==
  {h \in {m.hash : m \in rows} : Cardinality({m \in rows : m.hash = h}) > 1}

\* Text order of two digests: component by component, a proper prefix first
RECURSIVE lexLess(_, _, _)
lexLess(a, b, i) ==
  IF i > Len(a) THEN i <= Len(b)
  ELSE IF i > Len(b) THEN FALSE
  ELSE IF a[i] # b[i] THEN a[i] < b[i]
  ELSE lexLess(a, b, i + 1)

\* select ... where hash in (hashes) order by hash (scanner.ts 555-560): the
\* rows in any order that ORDER BY hash allows
orderedByHash(rows, hashes) ==
  LET sel == {m \in rows : m.hash \in hashes}
      n == Cardinality(sel)
  IN  {q \in [1..n -> sel] :
         /\ \A i, j \in 1..n : i # j => q[i] # q[j]
         /\ \A i, j \in 1..n : i < j => ~lexLess(q[j].hash, q[i].hash, 2)}

\* getDuplicates up to its await (scanner.ts 541-547)
GetDuplicates ==
  /\ dups.pc = "idle"
  /\ dups' = [dups EXCEPT !.pc = "hashes", !.hashes = duplicatedHashes(media)]
  /\ UNCHANGED <<files, dirs, media, thumbs, nextMediaId, nextThumbId, scans, aborted,
                 controller, procs, tmp, faults, deletes, userOps, edits, digests, sinkOk>>

\* getDuplicates after its await (scanner.ts 549-560)
GetDuplicatesRows ==
  /\ dups.pc = "hashes"
  /\ IF dups.hashes = {}
     THEN dups' = [dups EXCEPT !.pc = "done", !.rows = <<>>]
     ELSE \E q \in orderedByHash(media, dups.hashes) :
            dups' = [dups EXCEPT !.pc = "done", !.rows = q]
  /\ UNCHANGED <<files, dirs, media, thumbs, nextMediaId, nextThumbId, scans, aborted,
                 controller, procs, tmp, faults, deletes, userOps, edits, digests, sinkOk>>

\* The files earlier scans have stored: two contents below the size
\* threshold of calculateHash and one above it
MaxRows == 4
StoredPaths == {<<"p", i>> : i \in 1..MaxRows}
StoredContents ==
  {FileOf(".pdf", NoDims),
   [FileOf(".pdf", NoDims) EXCEPT !.head = 2],
   [FileOf(".pdf", NoDims) EXCEPT !.size = 60]}

\* The record afterHash inserts for a stored file
StoredRow(path, f) ==
  [id |-> path[2], filepath |-> path, filename |-> path, type |-> "document",
   size |-> f.size, createdAt |-> f.birth, hash |-> calculateHash(f),
   metadata |-> Placeholder]

InitDup ==
  /\ dirs = [x \in Dirs |-> DirOf(TRUE, TRUE)]
  /\ files = [f \in Files |-> FileOf(".pdf", NoDims)]
  /\ \E present \in SUBSET StoredPaths, content \in [StoredPaths -> StoredContents] :
       media = {StoredRow(x, content[x]) : x \in present}
  /\ thumbs = {}
  /\ nextMediaId = MaxRows + 1
  /\ nextThumbId = 1
  /\ scans = [s \in Scans |-> IdleScan]
  /\ aborted = [s \in Scans |-> FALSE]
  /\ controller = NoScan
  /\ procs = {}
  /\ tmp = {}
  /\ faults = 0
  /\ deletes = {}
  /\ userOps = 0
  /\ edits = 0
  /\ dups = NoQuery
  /\ digests = NoDigests
  /\ sinkOk = TRUE

NextDup == GetDuplicates \/ GetDuplicatesRows

SpecDup == InitDup /\ [][NextDup]_vars

\* ---------------------------------------------------------- fingerprints

\* calculateHash calls made on one file
MaxHashCalls == 2

\* The files fingerprinted: below, at and above the size threshold, with
\* either of two modification times, first 16 KiB and remainders
HashInputs ==
  {[FileOf(".pdf", NoDims) EXCEPT !.size = z, !.mtime = t, !.head = h, !.tail = r] :
     z \in {1, FileSizeThreshold, FileSizeThreshold + 1}, t \in {2021, 2022},
     h \in 1..2, r \in 1..2}

\* calculateHash(filePath) (scanner.ts 510-539): the call and the file as it
\* was read are kept beside the digest
CalculateHash(f) ==
  /\ Len(digests[f]) < MaxHashCalls
  /\ digests' = [digests EXCEPT
                   ![f] = Append(@, [input |-> files[f], hash |-> calculateHash(files[f])])]
  /\ UNCHANGED <<files, dirs, media, thumbs, nextMediaId, nextThumbId, scans, aborted,
                 controller, procs, tmp, faults, deletes, userOps, edits, dups, sinkOk>>

InitHash ==
  /\ dirs = [x \in Dirs |-> DirOf(TRUE, TRUE)]
  /\ files \in [Files -> HashInputs]
  /\ media = {}
  /\ thumbs = {}
  /\ nextMediaId = 1
  /\ nextThumbId = 1
  /\ scans = [s \in Scans |-> IdleScan]
  /\ aborted = [s \in Scans |-> FALSE]
  /\ controller = NoScan
  /\ procs = {}
  /\ tmp = {}
  /\ faults = 0
  /\ deletes = {}
  /\ userOps = 0
  /\ edits = 0
  /\ dups = NoQuery
  /\ digests = NoDigests
  /\ sinkOk = TRUE

NextHash == \E f \in Files : CalculateHash(f)

SpecHash == InitHash /\ [][NextHash]_vars

\* ------------------------------------------------------------ properties

Ids(rows) == {m.id : m \in rows}

\* Scan s has returned and its token was never set
Settled(s) == scans[s].pc = "done" /\ ~aborted[s]

\* Two runs over the same directory with the same options, one after the
\* other, nothing rewritten in between
Rerun == Settled(1) /\ Settled(2) /\ edits = 0

\* C1: no two records of the store carry the same filepath, whatever scans
\* overlap and whatever the window deletes or resets meanwhile
UniqueFilepath ==
  \A m1, m2 \in media : m1.filepath = m2.filepath => m1 = m2

\* An insert was refused by the constraint: a scan counted an error though
\* nothing failed by injection and nothing was deleted
UniqueFilepathRefused ==
  \E s \in Scans :
    /\ scans[s].result.errors > 0
    /\ faults = MaxIpcFaults
    /\ userOps = 0
    /\ media # {}

CancellationUnwinds ==
  \A s \in Scans :
    scans[s].thrown.depth > 0 =>
      /\ scans[s].pc = "done"
      /\ scans[s].result = scans[s].thrown.result

\* A scan cancelled inside the subdirectory, after it had inserted a record
CancelledInSubdirectory ==
  \E s \in Scans :
    /\ scans[s].thrown.depth = 2
    /\ scans[s].pc = "done"
    /\ scans[s].ins # {}
    /\ scans[s].ins \subseteq Ids(media)

\* C4 as stated: a scan inserts no record once its token is set
NoInsertOnceSet ==
  [][\A s \in Scans : aborted[s] => scans'[s].ins = scans[s].ins]_vars

\* C4: with its token set a scan inserts at most the record of the file it
\* was fingerprinting, and returns at the checkpoint that follows the insert;
\* after a checkpoint has seen the token it inserts nothing; what it inserted
\* stays in the store
InsertOnlyInFlight ==
  [][\A s \in Scans :
       /\ (aborted[s] /\ scans'[s].ins # scans[s].ins) =>
            /\ scans[s].pc = "hash"
            /\ scans'[s].pc = "done"
            /\ Cardinality(scans'[s].ins) = Cardinality(scans[s].ins) + 1
       /\ scans[s].thrown.depth > 0 => scans'[s].ins = scans[s].ins
       /\ scans'[s].ins \subseteq Ids(media')]_vars

\* A cancelled scan has returned, and the store keeps the record it inserted
\* after its token was set
InsertedAfterSet ==
  \E s \in Scans :
    /\ scans[s].pc = "done"
    /\ scans[s].late # {}
    /\ scans[s].late \subseteq Ids(media)

\* C5 as stated: when a scan has returned, no subprocess it spawned is still
\* running
NoRunningSubprocess ==
  \A s \in Scans : scans[s].pc = "done" => \A p \in procs : p.scan # s

\* C6: once its token is set a scan reads no further directory, visits no
\* further entry, begins no further file and reports no further progress;
\* what it still writes concerns the file in flight
NothingBegunOnceSet ==
  [][\A s \in Scans :
       (aborted[s] /\ scans'[s] # scans[s]) =>
         /\ scans'[s].pc \notin {"readdir", "lstat", "stat"}
         /\ scans'[s].sink = scans[s].sink
         /\ Len(scans'[s].stack) <= Len(scans[s].stack)
         /\ \A m \in media' \ media : m.filepath = scans[s].file]_vars

\* A cancelled scan has returned without ever visiting the readable file
\* beside the subdirectory
SiblingNeverBegun ==
  \E s \in Scans :
    /\ aborted[s]
    /\ scans[s].pc = "done"
    /\ scans[s].thrown.depth > 0
    /\ files["f2"].lstatOk
    /\ [status |-> "scanning", file |-> Root] \in scans[s].sink
    /\ [status |-> "processing", file |-> "f2"] \notin scans[s].sink
    /\ \A m \in media : m.filepath # "f2"

\* The entry visited after the one on top of the stack, "" when there is none
RECURSIVE NextAfter(_)
NextAfter(stack) ==
  IF stack = <<>> THEN ""
  ELSE LET t == stack[Len(stack)]
       IN  IF t.idx < Len(t.list) THEN t.list[t.idx + 1]
           ELSE NextAfter(SubSeq(stack, 1, Len(stack) - 1))

\* This step of scan s is a failure before a record of the entry exists:
\* readdir, lstat, stat, the fingerprint or the insert itself
PreInsertFailure(s) ==
  LET a == scans[s]
  IN  /\ scans'[s] # a
      /\ \/ a.pc = "readdir" /\ ~dirs[a.stack[Len(a.stack)].dir].readOk
         \/ a.pc = "lstat" /\ a.file \in Dirs /\ ~dirs[a.file].lstatOk
         \/ a.pc = "lstat" /\ a.file \in Files /\ ~files[a.file].lstatOk
         \/ a.pc = "stat" /\ ~files[a.file].statOk
         \/ a.pc = "hash" /\ (~files[a.file].hashOk \/ faults' < faults)

\* C7: a failure on an entry before its insert counts exactly one error,
\* leaves the store as it was, and the scan goes on with the next entry, or
\* returns when there is none
ErrorIsolation ==
  [][\A s \in Scans :
       PreInsertFailure(s) =>
         LET a == scans[s]
             b == scans'[s]
             next == IF a.pc = "readdir"
                     THEN NextAfter(SubSeq(a.stack, 1, Len(a.stack) - 1))
                     ELSE NextAfter(a.stack)
         IN  /\ b.result = [a.result EXCEPT !.errors = @ + 1]
             /\ media' = media
             /\ thumbs' = thumbs
             /\ ~aborted[s] =>
                  IF next = "" THEN b.pc = "done"
                  ELSE b.pc = "lstat" /\ b.file = next /\ b.result.errors > 0]_vars

\* The file in the subdirectory failed before its insert, and the scan is at
\* the entry beside the subdirectory
ContinuedAfterFailure ==
  \E s \in Scans :
    /\ ~aborted[s]
    /\ scans[s].result = [added |-> 0, skipped |-> 0, errors |-> 1]
    /\ [status |-> "processing", file |-> "f1"] \in scans[s].sink
    /\ scans[s].pc = "lstat"
    /\ scans[s].file = "f2"
    /\ \A m \in media : m.filepath # "f1"

\* C8 as stated: a failure after the insert of a file leaves its record in
\* the store, counts no error, and the file is counted as added when its
\* processing ends
PostInsertContained ==
  [][\A s \in Scans :
       LET a == scans[s]
           b == scans'[s]
       IN  (a.mediaId # 0 /\ b # a /\ faults' < faults) =>
             /\ b.result.errors = a.result.errors
             /\ a.mediaId \in Ids(media')
             /\ (~aborted[s] /\ b.file # a.file) =>
                  b.result.added = a.result.added + 1]_vars

\* C9: a file whose path the store knows is skipped: one more skipped, no
\* other counter, no record, thumbnail, subprocess or temporary file touched,
\* and the scan is at its next entry without stat or fingerprint of the file
KnownPathSkipped ==
  [][\A s \in Scans :
       LET a == scans[s]
           b == scans'[s]
       IN  (/\ a.pc = "lstat"
            /\ a.file \in Files
            /\ files[a.file].lstatOk
            /\ \E m \in media : m.filepath = a.file
            /\ ~aborted[s]
            /\ b # a) =>
             /\ b.result = [a.result EXCEPT !.skipped = @ + 1]
             /\ media' = media
             /\ thumbs' = thumbs
             /\ nextMediaId' = nextMediaId
             /\ procs' = procs
             /\ tmp' = tmp
             /\ b.pc \in {"lstat", "done"}
             /\ b.file # a.file]_vars

\* The second run has skipped a file rewritten since the first run stored
\* it: the stored fingerprint is no longer the file's
SkippedRewrittenFile ==
  \E m \in media :
    /\ edits = 1
    /\ m.filepath = "f1"
    /\ m.hash # calculateHash(files["f1"])
    /\ m.size # files["f1"].size
    /\ scans[2].pc = "lstat"
    /\ scans[2].file = "f2"
    /\ scans[2].result = [added |-> 0, skipped |-> 1, errors |-> 0]
    /\ [status |-> "processing", file |-> "f1"] \in scans[2].sink
    /\ m.id \notin scans[2].ins

\* C10: a file of unknown type, or a project file when projects are not
\* scanned, changes no counter and no record; the scan is at its next entry
IgnoredSilently ==
  [][\A s \in Scans :
       LET a == scans[s]
           b == scans'[s]
       IN  (/\ a.pc = "stat"
            /\ files[a.file].statOk
            /\ b # a
            /\ LET type == getFileType(toLowerCase(files[a.file].ext))
               IN  type = "unknown" \/ (type = "project" /\ ~a.opts.scanProjects)) =>
             /\ b.result = a.result
             /\ media' = media
             /\ thumbs' = thumbs
             /\ nextMediaId' = nextMediaId
             /\ b.sink = a.sink
             /\ b.pc \in {"lstat", "done"}
             /\ b.file # a.file]_vars

\* A scan without projects has just turned away the project file of the
\* subdirectory: no counter moved, the store is empty, and the scan is at the
\* entry beside the subdirectory
ProjectIgnored ==
  \E s \in Scans :
    /\ ~aborted[s]
    /\ ~scans[s].opts.scanProjects
    /\ getFileType(toLowerCase(files["f1"].ext)) = "project"
    /\ [status |-> "processing", file |-> "f1"] \in scans[s].sink
    /\ scans[s].pc = "lstat"
    /\ scans[s].file = "f2"
    /\ scans[s].result = [added |-> 0, skipped |-> 0, errors |-> 0]
    /\ media = {}

\* This step of scan s ends a file on a path the store knows
KnownPathStep(s) ==
  /\ scans[s].pc = "lstat"
  /\ scans[s].file \in Files
  /\ files[scans[s].file].lstatOk
  /\ \E m \in media : m.filepath = scans[s].file
  /\ ~aborted[s]
  /\ scans'[s] # scans[s]

\* This step of scan s ends an image that the probe found small on both sides
JunkStep(s) ==
  /\ scans[s].pc = "probe"
  /\ files[scans[s].file].probeOk
  /\ files[scans[s].file].dims[1] < 400
  /\ files[scans[s].file].dims[2] < 400
  /\ scans'[s] # scans[s]

\* This step of scan s ends a file of unknown type, or a project file when
\* projects are not scanned
CategoryStep(s) ==
  /\ scans[s].pc = "stat"
  /\ files[scans[s].file].statOk
  /\ LET type == getFileType(toLowerCase(files[scans[s].file].ext))
     IN  type = "unknown" \/ (type = "project" /\ ~scans[s].opts.scanProjects)
  /\ scans'[s] # scans[s]

\* C11 as stated: a known path, a disqualifying category and the junk filter
\* each count the file as skipped, and as nothing else
SkipsCounted ==
  [][\A s \in Scans :
       (KnownPathStep(s) \/ JunkStep(s) \/ CategoryStep(s)) =>
         scans'[s].result = [scans[s].result EXCEPT !.skipped = @ + 1]]_vars

\* C11: a known path and the junk filter each count the file as skipped, and
\* as nothing else; a disqualifying category changes no counter at all
SkipsCountedButCategory ==
  [][\A s \in Scans :
       /\ (KnownPathStep(s) \/ JunkStep(s)) =>
            scans'[s].result = [scans[s].result EXCEPT !.skipped = @ + 1]
       /\ CategoryStep(s) => scans'[s].result = scans[s].result]_vars

\* A second run has returned: it skipped the small picture of the
\* subdirectory again and the stored document beside it
SkippedJunkAndKnown ==
  /\ Rerun
  /\ files["f1"].dims = <<20, 20>>
  /\ files["f1"].ext = ".jpg"
  /\ files["f2"].ext = ".pdf"
  /\ scans[1].opts.includeSubfolders
  /\ scans[1].result = [added |-> 1, skipped |-> 1, errors |-> 0]
  /\ scans[2].result = [added |-> 0, skipped |-> 2, errors |-> 0]

\* C12: an image the probe finds below the threshold on both sides is
\* counted as skipped and as nothing else, nothing is stored for it and the
\* scan is at its next entry without fingerprinting it; any other image goes
\* on to its fingerprint; no record of the store is of such a small image
JunkFilter ==
  [][\A s \in Scans :
       LET a == scans[s]
           b == scans'[s]
       IN  /\ JunkStep(s) =>
                /\ b.result = [a.result EXCEPT !.skipped = @ + 1]
                /\ media' = media
                /\ thumbs' = thumbs
                /\ nextMediaId' = nextMediaId
                /\ b.pc \in {"lstat", "done"}
                /\ b.file # a.file
           /\ (a.pc = "probe" /\ b # a /\ ~JunkStep(s)) =>
                /\ b.pc = "hash"
                /\ b.file = a.file
                /\ b.result = a.result
           /\ \A m \in media' :
                LET f == files[m.filepath]
                IN  ~(m.type = "image" /\ f.probeOk /\ f.dims[1] < 400 /\ f.dims[2] < 400)]_vars

\* A picture with one side at the threshold was added with its thumbnail,
\* and the small picture beside the subdirectory was skipped and left no record
BoundaryAddedJunkSkipped ==
  \E s \in Scans, m \in media :
    /\ Settled(s)
    /\ files["f1"].dims = <<400, 399>>
    /\ files["f2"].dims = <<20, 20>>
    /\ files["f2"].ext = ".jpg"
    /\ m.filepath = "f1"
    /\ \E t \in thumbs : t.mediaId = m.id
    /\ \A n \in media : n.filepath # "f2"
    /\ scans[s].result = [added |-> 1, skipped |-> 1, errors |-> 0]

\* C13: every record's type is the classifier's answer for the lower-cased
\* extension of its filepath and is one of the five recognised types, and a
\* project record was inserted by a scan that had projects enabled
RecordTypes ==
  \A m \in media :
    /\ m.type \in {"image", "video", "audio", "document", "project"}
    /\ m.type = getFileType(toLowerCase(files[m.filepath].ext))
    /\ m.type = "project" =>
         \E s \in Scans : m.id \in scans[s].ins /\ scans[s].opts.scanProjects

\* A scan with projects enabled has stored the project file of the
\* subdirectory
ProjectStored ==
  \E s \in Scans, m \in media :
    /\ Settled(s)
    /\ scans[s].opts.scanProjects
    /\ m.id \in scans[s].ins
    /\ m.filepath = "f1"
    /\ files["f1"].ext = ".als"
    /\ m.type = "project"

\* C14: every thumbnail's mediaId is the id of a record of the store,
\* whatever the scans, delete-file and reset-library have done so far
NoOrphanThumbnail ==
  \A t \in thumbs : \E m \in media : m.id = t.mediaId

\* The picture's record was removed while its thumbnail was being made: the
\* scan has finished the file without a failure of its own, and no thumbnail
\* was ever stored
ThumbnailRefused ==
  \E s \in Scans :
    /\ Settled(s)
    /\ files["f1"].ext = ".jpg"
    /\ [status |-> "generating_thumbnail", file |-> "f1"] \in scans[s].sink
    /\ scans[s].result.added >= 1
    /\ scans[s].ins # {}
    /\ \A m \in media : m.filepath # "f1"
    /\ userOps = 1
    /\ faults = MaxIpcFaults
    /\ nextThumbId = 1

\* C15: no two thumbnails belong to the same record
OneThumbnailPerRecord ==
  \A t1, t2 \in thumbs : t1.mediaId = t2.mediaId => t1 = t2

\* A song's waveform failed and the generic icon is its only thumbnail
GenericIconOnly ==
  \E t \in thumbs, m \in media :
    /\ m.type = "audio"
    /\ t.mediaId = m.id
    /\ t.kind = "generic"
    /\ \A u \in thumbs : u.mediaId = m.id => u = t

\* C16: the metadata of every record of the store is a value, never NULL
MetadataNeverNull ==
  \A m \in media : m.metadata.kind # "null"

\* A scan has returned having added a picture whose metadata update failed:
\* the record keeps the metadata of its insert
PlaceholderKept ==
  \E s \in Scans, m \in media :
    /\ Settled(s)
    /\ m.id \in scans[s].ins
    /\ m.type = "image"
    /\ m.metadata = [kind |-> "placeholder"]
    /\ scans[s].result.added >= 1
    /\ scans[s].result.errors = 0

\* C17 as stated: no waveform subprocess is ever started for a song whose
\* tags hold a picture
NoWaveformWithPicture ==
  \A s \in Scans :
    scans[s].pc = "aud_ffmpeg" => files[scans[s].file].tags # "picture"

\* C17: for a song whose tags hold a picture the waveform subprocess is
\* started only when the resize of that picture has failed; when the resize
\* succeeds nothing is spawned
WaveformOnlyAfterCoverFailed ==
  [][\A s \in Scans :
       LET a == scans[s]
           b == scans'[s]
       IN  /\ (/\ a.file \in Files
               /\ files[a.file].tags = "picture"
               /\ a.pc # "aud_ffmpeg"
               /\ b.pc = "aud_ffmpeg") =>
                /\ a.pc = "aud_cover"
                /\ faults' < faults
                /\ \A t \in thumbs' : t.mediaId # a.mediaId
           /\ (a.pc = "aud_tags" /\ b # a /\ files[a.file].tags = "picture") =>
                b.pc = "aud_cover" /\ procs' = procs
           /\ (a.pc = "aud_cover" /\ b # a /\ faults' = faults) =>
                /\ b.pc # "aud_ffmpeg"
                /\ procs' = procs
                /\ \E t \in thumbs' : t.mediaId = a.mediaId /\ t.kind = "cover"]_vars

\* A scan has returned having stored the cover of the song as its thumbnail:
\* nothing failed, nothing was spawned, no temporary file exists
CoverStored ==
  \E s \in Scans, m \in media, t \in thumbs :
    /\ Settled(s)
    /\ files["f1"].tags = "picture"
    /\ m.filepath = "f1"
    /\ m.type = "audio"
    /\ t.mediaId = m.id
    /\ t.kind = "cover"
    /\ faults = MaxFaults
    /\ procs = {}
    /\ tmp = {}

\* C18 as stated: when a scan that was not cancelled has returned, every
\* audio record it inserted has a thumbnail
AudioAlwaysThumbnail ==
  \A s \in Scans :
    Settled(s) =>
      \A m \in media :
        (m.type = "audio" /\ m.id \in scans[s].ins) =>
          \E t \in thumbs : t.mediaId = m.id

\* C19 as stated: a temporary file exists only while the file it was made
\* for is being processed
TempFilesCleaned ==
  \A x \in tmp :
    \E s \in Scans : scans[s].mediaId = x[2] /\ scans[s].pc \notin {"idle", "done"}

\* C20: getDuplicates returns each record whose fingerprint another record
\* of the store carries, once, and no other record; the rows of one
\* fingerprint are contiguous; it returns nothing when no fingerprint repeats
DuplicatesExact ==
  dups.pc = "done" =>
    LET rows == dups.rows
        n == Len(rows)
        repeated == {m \in media : \E o \in media : o # m /\ o.hash = m.hash}
    IN  /\ {rows[i] : i \in 1..n} = repeated
        /\ n = Cardinality(repeated)
        /\ \A i, j, k \in 1..n :
             (i < j /\ j < k /\ rows[i].hash = rows[k].hash) => rows[j].hash = rows[i].hash
        /\ (\A m, o \in media : m.hash = o.hash => m = o) => rows = <<>>

\* Of three stored files two have the same bytes under different names: the
\* query has returned exactly these two
TwoOfThree ==
  /\ dups.pc = "done"
  /\ Cardinality(media) = 3
  /\ Len(dups.rows) = 2
  /\ dups.rows[1].hash = dups.rows[2].hash
  /\ dups.rows[1].filename # dups.rows[2].filename
  /\ \E m \in media : m.hash # dups.rows[1].hash

\* The metadata md is what the date rules ask for an image whose embedded
\* dates are p and whose filesystem dates are st
DateSane(p, st, md) ==
  LET good(v) == ~p.throws /\ v # NoDate /\ v # Unparsable /\ v >= 1970
      kept(v) == IF good(v) THEN v ELSE NoDate
  IN  /\ md.kind = "image"
      /\ IF good(p.ModifyDate) \/ good(p.DateTimeOriginal) \/ good(p.CreateDate)
         THEN /\ md.fallback = FALSE
              /\ md.ModifyDate = kept(p.ModifyDate)
              /\ md.DateTimeOriginal = kept(p.DateTimeOriginal)
              /\ md.CreateDate = kept(p.CreateDate)
         ELSE /\ md.fallback = TRUE
              /\ md.ModifyDate = st.mtime
              /\ md.DateTimeOriginal = NoDate
              /\ md.CreateDate = IF st.birth >= 1970 THEN st.birth ELSE st.mtime

FingerprintDeterministic ==
  /\ \A f \in Files :
       \A i, j \in 1..Len(digests[f]) : digests[f][i].hash = digests[f][j].hash
  /\ \A f, g \in Files :
       \A i \in 1..Len(digests[f]), j \in 1..Len(digests[g]) :
         LET x == digests[f][i]
             y == digests[g][j]
         IN  /\ (/\ x.input.size <= 50
                 /\ y.input.size <= 50
                 /\ x.input.head = y.input.head
                 /\ x.input.tail = y.input.tail) => x.hash = y.hash
             /\ (/\ x.input.size > 50
                 /\ y.input.size > 50
                 /\ x.input.size = y.input.size
                 /\ x.input.mtime = y.input.mtime
                 /\ x.input.head = y.input.head) => x.hash = y.hash

\* Two files of exactly 50 MB with the same bytes and different modification
\* times were fingerprinted, one of them twice: the three digests are equal
SameBytesAtThreshold ==
  /\ files["f1"].size = 50
  /\ files["f2"].size = 50
  /\ files["f1"].head = files["f2"].head
  /\ files["f1"].tail = files["f2"].tail
  /\ files["f1"].mtime # files["f2"].mtime
  /\ Len(digests["f1"]) = 2
  /\ Len(digests["f2"]) = 1
  /\ digests["f1"][1].hash = digests["f2"][1].hash
  /\ digests["f1"][2].hash = digests["f2"][1].hash

\* C23 as stated: when delete-file returns for a record that had a thumbnail,
\* the record and the thumbnail are both gone or both still there, and a
\* handler that reports a failure has left the store as it was
DeleteAtomic ==
  [][\A req \in deletes \ deletes' :
       ((\E m \in media : m.id = req.id) /\ (\E t \in thumbs : t.mediaId = req.id)) =>
         /\ (\E m \in media' : m.id = req.id) <=> (\E t \in thumbs' : t.mediaId = req.id)
         /\ faults' < faults => (media' = media /\ thumbs' = thumbs)]_vars

\* C24: a call of walk is entered from an entry only if the entry itself is
\* a directory and subfolders are included, and it is entered for every such
\* entry a scan that is not cancelled reaches; without subfolders only the
\* root is read and only its children are visited; a symbolic link to a
\* directory is never read as one, so no directory is on the walk twice
RecursionOnlyIntoDirectories ==
  [][\A s \in Scans :
       LET a == scans[s]
           b == scans'[s]
           mine == aborted[s] \/ (a.sig # NoScan /\ aborted[a.sig])
       IN  /\ (a.pc = "lstat" /\ b # a) =>
                /\ Len(b.stack) > Len(a.stack) =>
                     /\ a.file \in Dirs
                     /\ a.opts.includeSubfolders
                     /\ b.pc = "readdir"
                     /\ b.stack[Len(b.stack)].dir = a.file
                /\ (a.file \in Dirs /\ dirs[a.file].lstatOk
                      /\ a.opts.includeSubfolders /\ ~mine) =>
                     Len(b.stack) = Len(a.stack) + 1
           /\ ~b.opts.includeSubfolders =>
                /\ Len(b.stack) <= 1
                /\ \A e \in b.sink :
                     IF e.status = "scanning" THEN e.file = Root ELSE e.file = "f2"
           /\ \A i \in 1..Len(b.stack) :
                /\ b.stack[i].dir \in Dirs
                /\ \A j \in 1..Len(b.stack) : b.stack[i].dir = b.stack[j].dir => i = j
           /\ \A e \in b.sink : e.status = "scanning" => e.file \in Dirs]_vars

\* A scan with subfolders has read the subdirectory, found there a symbolic
\* link back to the root, left it alone and gone on to the entry beside the
\* subdirectory
LinkToRootNotFollowed ==
  \E s \in Scans :
    /\ files["f1"].link = Root
    /\ scans[s].opts.includeSubfolders
    /\ [status |-> "scanning", file |-> "d"] \in scans[s].sink
    /\ [status |-> "processing", file |-> "f1"] \in scans[s].sink
    /\ scans[s].pc = "lstat"
    /\ scans[s].file = "f2"
    /\ Len(scans[s].stack) = 1
    /\ scans[s].result = [added |-> 0, skipped |-> 0, errors |-> 0]

\* The metadata stored for the record of this id
MetaOf(rows, id) == {m.metadata : m \in {x \in rows : x.id = id}}

\* This step of scan s: the lookup of the path came before stat and
\* classification, and the insert of the record before its thumbnail
CheckedThenInserted(s) ==
  LET a == scans[s]
      b == scans'[s]
  IN  /\ (b.pc = "stat" /\ a.pc # "stat") =>
           /\ a.pc = "lstat"
           /\ \A m \in media : m.filepath # b.file
           /\ b.type = ""
      /\ (b.type # "" /\ a.type = "") => (a.pc = "stat" /\ b.file = a.file)
      /\ (b # a /\ thumbs' # thumbs) =>
           \A t \in thumbs' \ thumbs :
             /\ t.mediaId = a.mediaId
             /\ \E m \in media : m.id = t.mediaId /\ m.filepath = a.file

\* This step of scan s writes the metadata of the record of its file
WritesMetadata(s) ==
  /\ scans[s].mediaId # 0
  /\ MetaOf(media', scans[s].mediaId) # MetaOf(media, scans[s].mediaId)

\* C25 as stated: the lookup precedes stat and classification, the insert
\* precedes the thumbnail, and for every category the metadata of a record is
\* written after its thumbnail stage, as the last write of the file
StagesInOrder ==
  [][\A s \in Scans :
       /\ CheckedThenInserted(s)
       /\ WritesMetadata(s) =>
            /\ thumbs' = thumbs
            /\ scans'[s].file # scans[s].file
       /\ (scans'[s] # scans[s]) =>
            \A t \in thumbs' \ thumbs :
              MetaOf(media, t.mediaId) = {[kind |-> "placeholder"]}]_vars

\* C25: the lookup precedes stat and classification and the insert precedes
\* the thumbnail; the metadata of an image or a video is written after its
\* thumbnail stage, as the last write of the file; the metadata of a song is
\* written before any thumbnail of it, at the head of its thumbnail stage
StagesInOrderButAudio ==
  [][\A s \in Scans :
       LET a == scans[s]
       IN  /\ CheckedThenInserted(s)
           /\ (WritesMetadata(s) /\ a.type # "audio") =>
                /\ thumbs' = thumbs
                /\ scans'[s].file # a.file
           /\ (WritesMetadata(s) /\ a.type = "audio") =>
                /\ a.pc \in {"aud_tags", "aud_cover"}
                /\ \A t \in thumbs : t.mediaId # a.mediaId
           /\ (scans'[s] # a) =>
                \A t \in thumbs' \ thumbs :
                  IF a.type = "audio"
                  THEN \E m \in media' : m.id = t.mediaId /\ m.metadata.kind = "audio"
                  ELSE MetaOf(media, t.mediaId) = {[kind |-> "placeholder"]}]_vars

\* A song's tags are stored while its waveform is still being rendered: the
\* record has its metadata and no thumbnail yet
TagsStoredBeforeWaveform ==
  \E s \in Scans, m \in media :
    /\ scans[s].pc = "aud_ffmpeg"
    /\ m.id = scans[s].mediaId
    /\ m.metadata = [kind |-> "audio", tags |-> TRUE]
    /\ \A t \in thumbs : t.mediaId # m.id

\* The metadata updates made so far, by any scan, to the record of this id
UpdatesOf(all, id) ==
  {p \in UNION {{<<s, i>> : i \in 1..Len(all[s].upd)} : s \in Scans} :
     all[p[1]].upd[p[2]] = id}

\* C26: a record that stays in the store keeps its filepath, filename, type,
\* size, createdAt and hash through every step; a scan updates the metadata
\* of records it inserted only, and no record is updated twice
OnlyMetadataOnce ==
  [][/\ \A m \in media, n \in media' :
          m.id = n.id => [n EXCEPT !.metadata = m.metadata] = m
     /\ \A s \in Scans :
          \A i \in 1..Len(scans'[s].upd) : scans'[s].upd[i] \in scans'[s].ins
     /\ \A id \in 1..nextMediaId' : Cardinality(UpdatesOf(scans', id)) <= 1]_vars

\* A scan has returned having updated the metadata of its video once: the
\* record's other fields are those of the file as the insert found it
MetadataWrittenOnce ==
  \E s \in Scans, m \in media :
    /\ scans[s].pc = "done"
    /\ scans[s].upd = <<m.id>>
    /\ m.type = "video"
    /\ m.metadata.kind = "video"
    /\ m.filepath = "f1"
    /\ m.filename = "f1"
    /\ m.size = files["f1"].size
    /\ m.createdAt = files["f1"].birth
    /\ m.hash = calculateHash(files["f1"])

\* C27 as stated: when a scan has returned, its added counter is the number
\* of records it inserted
AddedCountsInserts ==
  \A s \in Scans :
    scans[s].pc = "done" => scans[s].result.added = Cardinality(scans[s].ins)

\* Scan s was started by start-scan, scanDirectory has not returned, and the
\* token it was given is not set
RunningUncancelled(s) ==
  /\ scans[s].ipc
  /\ scans[s].pc \notin {"idle", "import", "done", "rejected"}
  /\ ~aborted[scans[s].sig]

\* C28 as stated: while a scan started by start-scan runs with its token
\* unset, cancel-scan finds the controller of that scan: it sets the token
\* and returns true
CancelReachesRunningScan ==
  \A s \in Scans : RunningUncancelled(s) => controller = scans[s].sig

\* C29 as stated: at most one scan started by start-scan runs with its token
\* unset
SingleUncancelledScan ==
  \A s, t \in Scans : (RunningUncancelled(s) /\ RunningUncancelled(t)) => s = t

\* C30: a scanDirectory call that was made returns its result, whatever
\* fails and whenever its token is set, and its promise is never rejected
ScanTerminates ==
  /\ \A s \in Scans : (scans[s].pc # "idle") ~> (scans[s].pc = "done")
  /\ [](\A s \in Scans : scans[s].pc # "rejected")

\* A scan whose callback began to throw has returned from a directory with a
\* symbolic link back to the root: the failures are counted, nothing was added
ReturnedWithBrokenSink ==
  /\ scans[1].pc = "done"
  /\ ~sinkOk
  /\ files["f1"].link = Root
  /\ scans[1].opts.includeSubfolders
  /\ [status |-> "scanning", file |-> "d"] \in scans[1].sink
  /\ scans[1].result.errors > 0
  /\ scans[1].result.added = 0

====
